---- MODULE Spec2Model ----
(***************************************************************************)
(* py-questdb: the query-response materialization pipeline                 *)
(* (py_questdb/db.py, py_questdb/db_types.py), the write path, the life    *)
(* cycle of the QuestDB client object and the logging handlers             *)
(* (py_questdb/log_handler.py).                                            *)
(*                                                                         *)
(* A raw cell, a coerced value and a table cell are all records            *)
(* [k, n, s]: k is the Python kind of the value, n its number (for a       *)
(* float: the value in halves, so 1.5 is n = 3), s its text.               *)
(***************************************************************************)
EXTENDS Integers, Sequences, FiniteSets, TLC

VARIABLES
    response,      \* the bytes every fetch of this run returns (the payload)
    into_type,     \* the into_type argument given to query and query_sync
    q_out,         \* what draining query(...) gave
    qs_gen,        \* the generator query_sync(...) returned, then what it gave
    df_out,        \* what query_df(...) returned
    dfs_out,       \* what query_df_sync(...) returned
    indexer,       \* the argsort result sort_index computed for this payload
    session,       \* QuestDB.session: 0 is None, otherwise the session's id
    sessions,      \* number of aiohttp sessions created so far
    sessionLog,    \* the ids of the sessions closed, one entry per close()
    closeAwaits,   \* number of times QuestDB.close was awaited
    ctx,           \* "out" or "in": the position of the `async with` block
    blocks,        \* number of `async with` blocks entered so far
    lastBlock,     \* what the last __aenter__ returned / __aexit__ was given
    clientLog,     \* the calls the Sender received, in order
    calls,         \* the write-path calls made so far, with their arguments
    listener,      \* QuestDBLogHandler.listener: TRUE a QueueListener, FALSE None
    table_name,    \* InnerQuestDBLogHandler.table_name
    stops,         \* number of calls of QueueListener.stop
    baseCloses,    \* number of calls of the base handler's close
    closeLog,      \* one entry per call of QuestDBLogHandler.close
    emitLog        \* one entry per call of InnerQuestDBLogHandler.emit

vars == <<response, into_type, q_out, qs_gen, df_out, dfs_out, indexer,
          session, sessions, sessionLog, closeAwaits, ctx, blocks, lastBlock,
          clientLog, calls,
          listener, table_name, stops, baseCloses, closeLog, emitLog>>

logVars == <<listener, table_name, stops, baseCloses, closeLog, emitLog>>
queryVars == <<response, into_type, q_out, qs_gen, df_out, dfs_out, indexer>>
lifeVars  == <<session, sessions, sessionLog, closeAwaits, ctx, blocks, lastBlock>>

(***************************************************************************)
(* Bounds of the model.                                                    *)
(***************************************************************************)
MaxRows == 2        \* rows of a one-column response
MaxPairRows == 1    \* rows of a two-column response over all type pairs
MaxSeriesRows == 3  \* rows of a two-column time series
MaxCalls == 2       \* write-path calls in one run
MaxMessages == 2    \* messages passed to one write-path call
MaxBlocks == 3      \* `async with` blocks entered in one run
MaxCloses == 3      \* explicit awaits of QuestDB.close in one run
MaxHandlerCloses == 3  \* explicit calls of QuestDBLogHandler.close in one run
MaxRecords == 3     \* log records given to InnerQuestDBLogHandler.emit

(***************************************************************************)
(* Values.                                                                 *)
(***************************************************************************)
Null     == [k |-> "null", n |-> 0, s |-> ""]
PyBool(b) == [k |-> "bool", n |-> IF b THEN 1 ELSE 0, s |-> ""]
PyInt(i)  == [k |-> "int", n |-> i, s |-> ""]
PyFloat(h) == [k |-> "float", n |-> h, s |-> ""]      \* h halves
PyStr(t)  == [k |-> "str", n |-> 0, s |-> t]
PyDatetime(t) == [k |-> "datetime", n |-> t, s |-> ""] \* t: epoch seconds
Raise(e)  == [k |-> "error", n |-> 0, s |-> e]

IsError(v) == v.k = "error"

Min(a, b) == IF a < b THEN a ELSE b

Digits == <<"0", "1", "2", "3", "4", "5", "6", "7", "8", "9">>

RECURSIVE IntStr(_)
IntStr(i) ==
    IF i < 10 THEN Digits[i + 1]
    ELSE IntStr(i \div 10) \o Digits[(i % 10) + 1]

\* repr of a float given in halves
FloatStr(h) == IntStr(h \div 2) \o (IF h % 2 = 0 THEN ".0" ELSE ".5")

\* The integer and float literals among the texts of the model.
IntLiterals == 0 .. 20
IsIntLiteral(t) == \E i \in IntLiterals : IntStr(i) = t
IntLiteral(t) == CHOOSE i \in IntLiterals : IntStr(i) = t
IsFloatLiteral(t) == \E h \in IntLiterals : FloatStr(h) = t
FloatLiteral(t) == CHOOSE h \in IntLiterals : FloatStr(h) = t

\* The ISO-8601 texts of the model and the instants they denote.
T1 == "2023-08-14T12:00:00.000000Z"
T2 == "2023-08-15T12:00:00.000000Z"
IsIsoFormat(t) == t \in {T1, T2}
EpochSeconds(t) == IF t = T1 THEN 1692014400 ELSE 1692100800

(***************************************************************************)
(* TYPE_MAP: the Python constructors the row materializer applies.         *)
(***************************************************************************)
py_str(v) ==
    CASE v.k = "null"  -> PyStr("None")
      [] v.k = "bool"  -> PyStr(IF v.n = 1 THEN "True" ELSE "False")
      [] v.k = "int"   -> PyStr(IntStr(v.n))
      [] v.k = "float" -> PyStr(FloatStr(v.n))
      [] OTHER         -> v

py_bool(v) ==
    CASE v.k = "null" -> PyBool(FALSE)
      [] v.k = "str"  -> PyBool(v.s # "")
      [] OTHER        -> PyBool(v.n # 0)

py_int(v) ==
    CASE v.k = "null"  -> Raise("TypeError")
      [] v.k = "bool"  -> PyInt(v.n)
      [] v.k = "int"   -> v
      [] v.k = "float" -> PyInt(v.n \div 2)
      [] OTHER         -> IF IsIntLiteral(v.s) THEN PyInt(IntLiteral(v.s))
                          ELSE Raise("ValueError")

py_float(v) ==
    CASE v.k = "null"  -> Raise("TypeError")
      [] v.k = "bool"  -> PyFloat(2 * v.n)
      [] v.k = "int"   -> PyFloat(2 * v.n)
      [] v.k = "float" -> v
      [] OTHER         -> IF IsIntLiteral(v.s) THEN PyFloat(2 * IntLiteral(v.s))
                          ELSE IF IsFloatLiteral(v.s) THEN PyFloat(FloatLiteral(v.s))
                          ELSE Raise("ValueError")

fromisoformat(v) ==
    IF v.k # "str" THEN Raise("TypeError")
    ELSE IF IsIsoFormat(v.s) THEN PyDatetime(EpochSeconds(v.s))
    ELSE Raise("ValueError")

TYPE_MAP_KEYS == {"SYMBOL", "BOOLEAN", "LONG", "DOUBLE", "VARCHAR", "TIMESTAMP"}

\* the table with the converters of LONG and DOUBLE exchanged
TYPE_MAP_exchanged(type, v) ==
    CASE type \in {"SYMBOL", "VARCHAR"} -> py_str(v)
      [] type = "BOOLEAN"   -> py_bool(v)
      [] type = "LONG"      -> py_float(v)
      [] type = "DOUBLE"    -> py_int(v)
      [] type = "TIMESTAMP" -> fromisoformat(v)

TYPE_MAP(type, v) ==
    CASE type \in {"SYMBOL", "VARCHAR"} -> py_str(v)
      [] type = "BOOLEAN"   -> py_bool(v)
      [] type = "LONG"      -> py_int(v)
      [] type = "DOUBLE"    -> py_float(v)
      [] type = "TIMESTAMP" -> fromisoformat(v)

\* the converter applied to every cell, None included
ConvertCellUnguarded(type, v) == TYPE_MAP(type, v)

\* db.py line 145: converter(value) if value is not None else None
ConvertCell(type, v) == IF v.k # "null" THEN TYPE_MAP(type, v) ELSE Null

(***************************************************************************)
(* The wire payload and its decoding.  A payload is the JSON document the  *)
(* server sent: json is FALSE for bytes that are no QuestDBResponse        *)
(* document at all.  dataset is list[tuple]: the decoder accepts tuples of *)
(* any length and cells of any JSON kind.                                  *)
(***************************************************************************)
Column(name, type) == [name |-> name, type |-> type]

parse_query_response(bytes) ==
    IF bytes.json
    THEN [err |-> "", columns |-> bytes.columns, dataset |-> bytes.dataset]
    ELSE [err |-> "DecodeError", columns |-> <<>>, dataset |-> <<>>]

(***************************************************************************)
(* The row materializer, parse_and_yield_query_response, drained by its    *)
(* caller: the records it yielded and the exception that ended it, if any. *)
(***************************************************************************)
\* d[key] = val on an insertion-ordered dict kept as a sequence of pairs
DictSet(d, key, val) ==
    IF \E j \in 1 .. Len(d) : d[j][1] = key
    THEN [j \in 1 .. Len(d) |-> IF d[j][1] = key THEN <<key, val>> ELSE d[j]]
    ELSE Append(d, <<key, val>>)

\* zip(response.columns, type_converter, row) stops at the shortest
ZipLen(columns, row) == Min(Len(columns), Len(row))

RECURSIVE DictComp(_, _, _)
DictComp(columns, row, i) ==
    IF i = 0 THEN <<>>
    ELSE DictSet(DictComp(columns, row, i - 1), columns[i].name,
                 ConvertCell(columns[i].type, row[i]))

converted_row(columns, row) == DictComp(columns, row, ZipLen(columns, row))

\* the exception the comprehension raises: that of the first failing cell
RowError(columns, row) ==
    LET bad == {i \in 1 .. ZipLen(columns, row) :
                   IsError(ConvertCell(columns[i].type, row[i]))}
        first == CHOOSE i \in bad : \A j \in bad : i <= j
    IN  IF bad = {} THEN "" ELSE ConvertCell(columns[first].type, row[first]).s

\* The record shape a caller may pass as into_type: a struct with a
\* required field "a" and an optional field "b".
RowFields == <<"a", "b">>
RowRequired == {"a"}
DictKeys(d) == {d[j][1] : j \in 1 .. Len(d)}
DictGet(d, key) ==
    IF key \in DictKeys(d)
    THEN (d[CHOOSE j \in 1 .. Len(d) : d[j][1] = key])[2]
    ELSE Null

\* into_type(**converted_row) if into_type else converted_row
Construct(into, d) ==
    IF into = "None" THEN [type |-> "dict", items |-> d, err |-> ""]
    ELSE IF \/ \E key \in DictKeys(d) : \A j \in 1 .. Len(RowFields) : RowFields[j] # key
            \/ \E key \in RowRequired : key \notin DictKeys(d)
         THEN [type |-> into, items |-> <<>>, err |-> "TypeError"]
         ELSE [type |-> into,
               items |-> [j \in 1 .. Len(RowFields) |->
                             <<RowFields[j], DictGet(d, RowFields[j])>>],
               err |-> ""]

RECURSIVE YieldRows(_, _, _, _)
YieldRows(resp, into, i, yielded) ==
    IF i > Len(resp.dataset) THEN [rows |-> yielded, err |-> ""]
    ELSE LET row == resp.dataset[i]
             e   == RowError(resp.columns, row)
             obj == Construct(into, converted_row(resp.columns, row))
         IN  IF e # "" THEN [rows |-> yielded, err |-> e]
             ELSE IF obj.err # "" THEN [rows |-> yielded, err |-> obj.err]
             ELSE YieldRows(resp, into, i + 1,
                            Append(yielded, [type |-> obj.type, items |-> obj.items]))

\* the converters looked up row by row, inside the loop
parse_and_yield_lookup_per_row(resp, into) ==
    IF resp.dataset = <<>> THEN [rows |-> <<>>, err |-> ""]
    ELSE IF \E i \in 1 .. Len(resp.columns) : resp.columns[i].type \notin TYPE_MAP_KEYS
    THEN [rows |-> <<>>, err |-> "KeyError"]
    ELSE YieldRows(resp, into, 1, <<>>)

parse_and_yield_query_response(resp, into) ==
    IF \E i \in 1 .. Len(resp.columns) : resp.columns[i].type \notin TYPE_MAP_KEYS
    THEN [rows |-> <<>>, err |-> "KeyError"]
    ELSE YieldRows(resp, into, 1, <<>>)

(***************************************************************************)
(* pandas, as far as convert_types and query_df use it.  A column is       *)
(* [dtype, vals]; in a float or datetime column Null stands for NaN / NaT. *)
(***************************************************************************)
Series(dtype, vals) == [dtype |-> dtype, vals |-> vals]
NoIndex == [set |-> FALSE, name |-> "", dtype |-> "", vals |-> <<>>]
Frame(names, cols) ==
    [err |-> "", names |-> names, cols |-> cols, index |-> NoIndex]
FrameError(e) ==
    [err |-> e, names |-> <<>>, cols |-> <<>>, index |-> NoIndex]

Kinds(vals) == {vals[i].k : i \in 1 .. Len(vals)}
AsFloat(v) == IF v.k \in {"int", "bool"} THEN PyFloat(2 * v.n) ELSE v
AsInt(v) ==
    CASE v.k = "bool"  -> PyInt(v.n)
      [] v.k = "float" -> PyInt(v.n \div 2)
      [] OTHER         -> v

\* the dtype the DataFrame constructor infers for a column of Python objects
InferObjects(vals) ==
    LET ks == Kinds(vals) IN
    IF vals = <<>> THEN Series("object", vals)
    ELSE IF ks = {"int"} THEN Series("int64", vals)
    ELSE IF ks \subseteq {"int", "float", "null"} /\ ks # {"null"}
         THEN Series("float64", [i \in 1 .. Len(vals) |-> AsFloat(vals[i])])
    ELSE IF ks = {"bool"} THEN Series("bool", vals)
    ELSE Series("object", vals)

RECURSIVE MaxLen(_, _)
MaxLen(rows, i) ==
    IF i = 0 THEN 0
    ELSE LET m == MaxLen(rows, i - 1)
         IN  IF Len(rows[i]) > m THEN Len(rows[i]) ELSE m

\* pd.DataFrame(data.dataset, columns=[col.name for col in data.columns]):
\* short tuples are padded with None to the longest one, and a width other
\* than the number of names is a ValueError.
DataFrame(dataset, names) ==
    IF dataset = <<>>
    THEN Frame(names, [j \in 1 .. Len(names) |-> Series("object", <<>>)])
    ELSE IF MaxLen(dataset, Len(dataset)) # Len(names) THEN FrameError("ValueError")
    ELSE Frame(names,
               [j \in 1 .. Len(names) |->
                   InferObjects([i \in 1 .. Len(dataset) |->
                       IF j <= Len(dataset[i]) THEN dataset[i][j] ELSE Null])])

IntSizes == <<"int8", "int16", "int32", "int64">>
ItemSize(dtype) ==
    CASE dtype \in {"int8", "bool"}      -> 1
      [] dtype = "int16"                 -> 2
      [] dtype \in {"int32", "float32"}  -> 4
      [] dtype \in {"int64", "float64"}  -> 8
IntMax(dtype) ==
    CASE dtype = "int8"  -> 127
      [] dtype = "int16" -> 32767
      [] OTHER           -> 2147483647
IsIntDType(dtype) == dtype \in {"int8", "int16", "int32", "int64"}
IsFloatDType(dtype) == dtype \in {"float32", "float64"}

\* lib.maybe_convert_numeric on an object column
ParseNumeric(v) ==
    IF v.k # "str" THEN v
    ELSE IF IsIntLiteral(v.s) THEN PyInt(IntLiteral(v.s))
    ELSE IF IsFloatLiteral(v.s) THEN PyFloat(FloatLiteral(v.s))
    ELSE IF v.s = "" THEN Null
    ELSE Raise("ValueError")

ConvertNumeric(col) ==
    IF col.dtype # "object" THEN col
    ELSE IF col.vals = <<>> THEN Series("int64", <<>>)
    ELSE LET parsed == [i \in 1 .. Len(col.vals) |-> ParseNumeric(col.vals[i])]
             ks == Kinds(parsed)
         IN  IF "error" \in ks THEN Series("error", <<>>)
             ELSE IF ks \cap {"float", "null"} # {}
                  THEN Series("float64", [i \in 1 .. Len(parsed) |-> AsFloat(parsed[i])])
             ELSE IF "int" \in ks
                  THEN Series("int64", [i \in 1 .. Len(parsed) |-> AsInt(parsed[i])])
             ELSE Series("bool", parsed)

\* maybe_downcast_numeric(values, dtype) succeeded for an integer dtype
FitsInt(col, dtype) ==
    \/ col.vals = <<>>
    \/ col.dtype = dtype
    \/ /\ ~(IsIntDType(col.dtype) /\ ItemSize(col.dtype) <= ItemSize(dtype))
       /\ \A i \in 1 .. Len(col.vals) :
             /\ col.vals[i].k # "null"
             /\ col.vals[i].k = "float" => col.vals[i].n % 2 = 0
             /\ AsInt(col.vals[i]).n <= IntMax(dtype)

\* a downcast that stops at the next smaller width that fits
DowncastIntegerOneStep(col) ==
    LET next == CASE col.dtype \in {"int64", "float64"} -> "int32"
                  [] col.dtype \in {"int32", "float32"} -> "int16"
                  [] OTHER -> "int8"
    IN  IF col.dtype \in {"bool", "int8"} \/ ~FitsInt(col, next) THEN col
        ELSE Series(next, [i \in 1 .. Len(col.vals) |-> AsInt(col.vals[i])])

DowncastInteger(col) ==
    LET ok == {j \in 1 .. Len(IntSizes) :
                  /\ ItemSize(IntSizes[j]) <= ItemSize(col.dtype)
                  /\ FitsInt(col, IntSizes[j])}
        j  == CHOOSE a \in ok : \A b \in ok : a <= b
    IN  IF col.dtype = "bool" \/ ok = {} THEN col
        ELSE Series(IntSizes[j], [i \in 1 .. Len(col.vals) |-> AsInt(col.vals[i])])

\* float32 is the smallest float dtype tried; every number of the model is
\* exactly representable in it
DowncastFloat(col) ==
    IF col.dtype = "bool" \/ ItemSize(col.dtype) < 4 \/ col.dtype = "float32" THEN col
    ELSE Series("float32", [i \in 1 .. Len(col.vals) |-> AsFloat(col.vals[i])])

\* pd.to_numeric(series, downcast=...)
to_numeric(col, downcast) ==
    LET c == ConvertNumeric(col) IN
    IF c.dtype = "error" THEN c
    ELSE IF downcast = "integer" THEN DowncastInteger(c)
    ELSE DowncastFloat(c)

\* pd.to_datetime(series) on a column of ISO texts and None
to_datetime(col) ==
    IF col.dtype = "datetime64" THEN col
    ELSE LET conv(v) == IF v.k = "null" THEN Null ELSE fromisoformat(v)
             parsed == [i \in 1 .. Len(col.vals) |-> conv(col.vals[i])]
         IN  IF "error" \in Kinds(parsed) THEN Series("error", <<>>)
             ELSE Series("datetime64", parsed)

\* series.astype(str)
astype_str(col) ==
    LET text(v) ==
            IF v.k = "null"
            THEN PyStr(CASE IsFloatDType(col.dtype)   -> "nan"
                         [] col.dtype = "datetime64"  -> "NaT"
                         [] OTHER                     -> "None")
            ELSE py_str(v)
    IN  Series("object", [i \in 1 .. Len(col.vals) |-> text(col.vals[i])])

ColumnIndex(names, name) == CHOOSE j \in 1 .. Len(names) : names[j] = name

convert_column(col, type) ==
    CASE type = "TIMESTAMP" -> to_datetime(col)
      [] type \in {"BOOLEAN", "BYTE", "SHORT", "INT", "LONG"} -> to_numeric(col, "integer")
      [] type \in {"FLOAT", "DOUBLE"} -> to_numeric(col, "float")
      [] type = "STRING" -> astype_str(col)
      [] OTHER -> col

RECURSIVE ConvertLoop(_, _, _)
ConvertLoop(df, columns, i) ==
    IF i > Len(columns) \/ df.err # "" THEN df
    ELSE LET j == ColumnIndex(df.names, columns[i].name)
             c == convert_column(df.cols[j], columns[i].type)
         IN  IF c.dtype = "error" THEN FrameError("ValueError")
             ELSE ConvertLoop([df EXCEPT !.cols[j] = c], columns, i + 1)

convert_types(df, columns) == ConvertLoop(df, columns, 1)

(***************************************************************************)
(* query_df / query_df_sync: the frame, its index, its sort.               *)
(***************************************************************************)
NoneName == ""   \* next(..., None) gave None; `if timestamp_col:` is false
                 \* for None and for an empty name alike

\* next((col.name for col in data.columns if col.type == "TIMESTAMP"), None)
FirstTimestamp(columns) ==
    LET ts == {i \in 1 .. Len(columns) : columns[i].type = "TIMESTAMP"}
    IN  IF ts = {} THEN NoneName
        ELSE columns[CHOOSE i \in ts : \A j \in ts : i <= j].name

Without(seq, j) ==
    [i \in 1 .. Len(seq) - 1 |-> IF i < j THEN seq[i] ELSE seq[i + 1]]

\* df.set_index(name, inplace=True)
set_index(df, name) ==
    LET j == ColumnIndex(df.names, name) IN
    [df EXCEPT !.index = [set |-> TRUE, name |-> name,
                          dtype |-> df.cols[j].dtype, vals |-> df.cols[j].vals],
               !.names = Without(df.names, j),
               !.cols  = Without(df.cols, j)]

\* Index.is_monotonic_decreasing: never with a NaT in it
IsMonotonicDecreasing(vals) ==
    /\ \A i \in 1 .. Len(vals) : vals[i].k # "null"
    /\ \A i \in 1 .. Len(vals) - 1 : vals[i].n >= vals[i + 1].n

RowOrders(n) ==
    {p \in [1 .. n -> 1 .. n] : \A i, j \in 1 .. n : p[i] = p[j] => i = j}

\* What nargsort(index, kind="quicksort", ascending=False, na_position="last")
\* may return: the rows without NaT in non-increasing order, then the NaT rows
\* in their original order.  quicksort is not a stable sort: the order of
\* rows with equal keys is whatever the sort of the build makes it.
Argsorts(vals) ==
    LET n == Len(vals)
        nn == Cardinality({i \in 1 .. n : vals[i].k # "null"})
    IN  {p \in RowOrders(n) :
            /\ \A i \in 1 .. n : (i <= nn) <=> (vals[p[i]].k # "null")
            /\ \A i \in 1 .. nn - 1 : vals[p[i]].n >= vals[p[i + 1]].n
            /\ \A i \in nn + 1 .. n - 1 : p[i] < p[i + 1]}

Take(vals, p) == [i \in 1 .. Len(p) |-> vals[p[i]]]

\* df.sort_index(ascending=False, inplace=True), argsort being nargsort's result
sort_index(df, argsort) ==
    IF IsMonotonicDecreasing(df.index.vals) THEN df
    ELSE [df EXCEPT !.index.vals = Take(df.index.vals, argsort),
                    !.cols = [j \in 1 .. Len(df.cols) |->
                                 Series(df.cols[j].dtype, Take(df.cols[j].vals, argsort))]]

ColumnNamesOf(columns) == [i \in 1 .. Len(columns) |-> columns[i].name]

\* db.py 205-215
query_df_body(bytes, argsort) ==
    LET data == parse_query_response(bytes)
        df0  == DataFrame(data.dataset, ColumnNamesOf(data.columns))
        df   == convert_types(df0, data.columns)
        timestamp_col == FirstTimestamp(data.columns)
    IN  IF data.err # "" THEN FrameError(data.err)
        ELSE IF df0.err # "" THEN df0
        ELSE IF df.err # "" THEN df
        ELSE IF timestamp_col # NoneName
             THEN sort_index(set_index(df, timestamp_col), argsort)
             ELSE df

\* query_df_sync without its sort: the frame is indexed and left as decoded
query_df_sync_unsorted(bytes, argsort) ==
    LET data == parse_query_response(bytes)
        df0  == DataFrame(data.dataset, ColumnNamesOf(data.columns))
        df   == convert_types(df0, data.columns)
        timestamp_col == FirstTimestamp(data.columns)
    IN  IF data.err # "" THEN FrameError(data.err)
        ELSE IF df0.err # "" THEN df0
        ELSE IF df.err # "" THEN df
        ELSE IF timestamp_col # NoneName
             THEN set_index(df, timestamp_col)
             ELSE df

\* db.py 227-237
query_df_sync_body(bytes, argsort) ==
    LET data == parse_query_response(bytes)
        df0  == DataFrame(data.dataset, ColumnNamesOf(data.columns))
        df   == convert_types(df0, data.columns)
        timestamp_col == FirstTimestamp(data.columns)
    IN  IF data.err # "" THEN FrameError(data.err)
        ELSE IF df0.err # "" THEN df0
        ELSE IF df.err # "" THEN df
        ELSE IF timestamp_col # NoneName
             THEN sort_index(set_index(df, timestamp_col), argsort)
             ELSE df

\* The index nargsort is given, <<>> when the call does not get that far.
IndexToSort(bytes) ==
    LET data == parse_query_response(bytes)
        df0  == DataFrame(data.dataset, ColumnNamesOf(data.columns))
        df   == convert_types(df0, data.columns)
        timestamp_col == FirstTimestamp(data.columns)
    IN  IF data.err # "" \/ df0.err # "" \/ df.err # "" \/ timestamp_col = NoneName
        THEN <<>>
        ELSE LET vals == set_index(df, timestamp_col).index.vals
             IN  IF IsMonotonicDecreasing(vals) THEN <<>> ELSE vals

(***************************************************************************)
(* The payloads of the model.                                              *)
(***************************************************************************)
ColumnNames == <<"a", "b">>

Types == TYPE_MAP_KEYS \cup {"STRING", "INT"}

Cells == {Null, PyBool(TRUE), PyInt(15), PyInt(300), PyFloat(3), PyFloat(4),
          PyStr("7"), PyStr("hello")}
TimestampCells == {Null, PyStr(T1), PyStr(T2), PyStr("hello")}
CellsFor(type) == IF type = "TIMESTAMP" THEN TimestampCells ELSE Cells

\* two cells per type (three for TIMESTAMP), for the wider payloads
CoreCellsFor(type) ==
    CASE type = "TIMESTAMP" -> {Null, PyStr(T1), PyStr(T2)}
      [] type \in {"SYMBOL", "STRING"} -> {Null, PyStr("hello")}
      [] type = "VARCHAR" -> {PyStr("7"), PyInt(15)}
      [] type = "BOOLEAN" -> {PyBool(TRUE), Null}
      [] type \in {"LONG", "INT"} -> {PyInt(15), PyInt(300)}
      [] type = "DOUBLE" -> {PyFloat(3), PyInt(15)}

Payload(columns, dataset) ==
    [json |-> TRUE, columns |-> columns, dataset |-> dataset]
Garbage == [json |-> FALSE, columns |-> <<>>, dataset |-> <<>>]

\* the column-major tables of n rows for the given column types
RECURSIVE ColumnMajor(_, _, _)
ColumnMajor(types, core, n) ==
    IF types = <<>> THEN {<<>>}
    ELSE {<<c>> \o rest :
              c \in [1 .. n -> IF core THEN CoreCellsFor(Head(types))
                                       ELSE CellsFor(Head(types))],
              rest \in ColumnMajor(Tail(types), core, n)}

\* the rectangular datasets of n rows for the given column types
Datasets(types, core, n) ==
    {[i \in 1 .. n |-> [j \in 1 .. Len(types) |-> c[j][i]]] :
        c \in ColumnMajor(types, core, n)}

ColumnsOf(types) == [j \in 1 .. Len(types) |-> Column(ColumnNames[j], types[j])]

SingleColumnPayloads ==
    UNION {{Payload(ColumnsOf(<<t>>), d) : d \in Datasets(<<t>>, FALSE, n)} :
              <<t, n>> \in Types \X (0 .. MaxRows)}

PairTypes == {"LONG", "VARCHAR", "TIMESTAMP", "STRING"}
PairPayloads ==
    UNION {{Payload(ColumnsOf(<<t[1], t[2]>>), d) :
                d \in Datasets(<<t[1], t[2]>>, TRUE, t[3])} :
              t \in PairTypes \X PairTypes \X (0 .. MaxPairRows)}

SeriesTypes == {<<"TIMESTAMP", "LONG">>, <<"LONG", "TIMESTAMP">>}
SeriesPayloads ==
    UNION {{Payload(ColumnsOf(t[1]), d) : d \in Datasets(t[1], TRUE, t[2])} :
              t \in SeriesTypes \X (0 .. MaxSeriesRows)}

\* a payload with one tuple a cell short, or a cell long
RaggedOf(p) ==
    {[p EXCEPT !.dataset[i] = SubSeq(@, 1, Len(@) - 1)] : i \in 1 .. Len(p.dataset)}
    \cup {[p EXCEPT !.dataset[i] = Append(@, PyInt(15))] : i \in 1 .. Len(p.dataset)}
RaggedPayloads == UNION {RaggedOf(p) : p \in PairPayloads}

Payloads ==
    SingleColumnPayloads \cup PairPayloads \cup SeriesPayloads
    \cup RaggedPayloads \cup {Garbage}

IntoTypes == {"None", "Row"}

(***************************************************************************)
(* The state after QuestDB.__init__ (db.py 34-38): no session, a Sender    *)
(* that has received nothing yet.                                          *)
(***************************************************************************)
Unset == [state |-> "unset", rows |-> <<>>, err |-> ""]
Drained(r) == [state |-> "done", rows |-> r.rows, err |-> r.err]
UnsetFrame == [state |-> "unset", frame |-> FrameError("")]
Returned(df) == [state |-> "done", frame |-> df]
NoIndexer == [set |-> FALSE, p |-> <<>>]

InitLife ==
    /\ session = 0
    /\ sessions = 0
    /\ sessionLog = <<>>
    /\ closeAwaits = 0
    /\ ctx = "out"
    /\ blocks = 0
    /\ lastBlock = [returned |-> "", exc |-> FALSE]

InitWrite ==
    /\ clientLog = <<>>
    /\ calls = <<>>

\* QuestDBLogHandler.__init__ (log_handler.py 17-27): the listener is
\* created and started, the inner handler is given the table name
InitHandler(table) ==
    /\ listener = TRUE
    /\ table_name = table
    /\ stops = 0
    /\ baseCloses = 0
    /\ closeLog = <<>>
    /\ emitLog = <<>>

InitOutputs ==
    /\ q_out = Unset
    /\ qs_gen = Unset
    /\ df_out = UnsetFrame
    /\ dfs_out = UnsetFrame
    /\ indexer = NoIndexer

Init ==
    /\ response \in Payloads
    /\ into_type \in IntoTypes
    /\ InitOutputs
    /\ InitLife
    /\ InitWrite
    /\ InitHandler("_logs")

(***************************************************************************)
(* _query (db.py 92-97): the first asynchronous fetch creates the session. *)
(***************************************************************************)
EnsureSession ==
    /\ session' = IF session = 0 THEN sessions + 1 ELSE session
    /\ sessions' = IF session = 0 THEN sessions + 1 ELSE sessions

(***************************************************************************)
(* query (db.py 169-172), drained by `async for`.                          *)
(***************************************************************************)
query_body(bytes, into) ==
    LET data == parse_query_response(bytes) IN
    IF data.err # "" THEN [rows |-> <<>>, err |-> data.err]
    ELSE parse_and_yield_query_response(data, into)

query ==
    /\ q_out.state = "unset"
    /\ q_out' = Drained(query_body(response, into_type))
    /\ EnsureSession
    /\ UNCHANGED <<response, into_type, qs_gen, df_out, dfs_out, indexer>>
    /\ UNCHANGED <<sessionLog, closeAwaits, ctx, blocks, lastBlock, clientLog, calls>>
    /\ UNCHANGED logVars

(***************************************************************************)
(* query_sync (db.py 191-193): the call decodes and returns the generator; *)
(* nothing of parse_and_yield_query_response runs before it is iterated.   *)
(***************************************************************************)
query_sync_call(bytes) ==
    LET data == parse_query_response(bytes) IN
    IF data.err # "" THEN [state |-> "done", rows |-> <<>>, err |-> data.err]
    ELSE [state |-> "created", rows |-> <<>>, err |-> ""]

query_sync_iterate(bytes, into) ==
    parse_and_yield_query_response(parse_query_response(bytes), into)

query_sync ==
    /\ qs_gen.state = "unset"
    /\ qs_gen' = query_sync_call(response)
    /\ UNCHANGED <<response, into_type, q_out, df_out, dfs_out, indexer>>
    /\ UNCHANGED <<lifeVars, clientLog, calls>>
    /\ UNCHANGED logVars

query_sync_drain ==
    /\ qs_gen.state = "created"
    /\ qs_gen' = Drained(query_sync_iterate(response, into_type))
    /\ UNCHANGED <<response, into_type, q_out, df_out, dfs_out, indexer>>
    /\ UNCHANGED <<lifeVars, clientLog, calls>>
    /\ UNCHANGED logVars

(***************************************************************************)
(* query_df and query_df_sync.  The argsort of the index is the build's:   *)
(* one of Argsorts, and the same one each time the same index is sorted.   *)
(***************************************************************************)
ChooseArgsort(p) ==
    /\ (indexer.set /\ p # <<>>) => p = indexer.p
    /\ indexer' = IF p = <<>> THEN indexer ELSE [set |-> TRUE, p |-> p]

query_df ==
    /\ df_out.state = "unset"
    /\ \E p \in Argsorts(IndexToSort(response)) :
          /\ ChooseArgsort(p)
          /\ df_out' = Returned(query_df_body(response, p))
    /\ EnsureSession
    /\ UNCHANGED <<response, into_type, q_out, qs_gen, dfs_out>>
    /\ UNCHANGED <<sessionLog, closeAwaits, ctx, blocks, lastBlock, clientLog, calls>>
    /\ UNCHANGED logVars

query_df_sync ==
    /\ dfs_out.state = "unset"
    /\ \E p \in Argsorts(IndexToSort(response)) :
          /\ ChooseArgsort(p)
          /\ dfs_out' = Returned(query_df_sync_body(response, p))
    /\ UNCHANGED <<response, into_type, q_out, qs_gen, df_out>>
    /\ UNCHANGED <<lifeVars, clientLog, calls>>
    /\ UNCHANGED logVars

Next ==
    \/ query
    \/ query_sync
    \/ query_sync_drain
    \/ query_df
    \/ query_df_sync

Spec == Init /\ [][Next]_vars

\* the record entry points alone
NextRows ==
    \/ query
    \/ query_sync
    \/ query_sync_drain

SpecRows == Init /\ [][NextRows]_vars

\* the table entry points alone; they take no into_type
InitFrames == Init /\ into_type = "None"

NextFrames ==
    \/ query_df
    \/ query_df_sync

SpecFrames == InitFrames /\ [][NextFrames]_vars

(***************************************************************************)
(* The write path (db.py 40-80).  The Sender is known by the calls it      *)
(* receives; a message is known by what its to_quest_db_format returns.    *)
(***************************************************************************)
Messages == {[table |-> "test_table", number |-> 1],
             [table |-> "test_table", number |-> 2]}

\* QuestMessage.to_quest_db_format, as the test message implements it
to_quest_db_format(msg) ==
    [table_name |-> msg.table, columns |-> msg.number]

ClientRow(fields) == [call |-> "row", fields |-> fields]
NoFields == [table_name |-> "", columns |-> 0]
ClientFlush == [call |-> "flush", fields |-> NoFields]
ClientClose == [call |-> "close", fields |-> NoFields]

\* for msg in messages: self.client.row(**msg.to_quest_db_format())
RECURSIVE RowLoop(_, _)
RowLoop(log, messages) ==
    IF messages = <<>> THEN log
    ELSE RowLoop(Append(log, ClientRow(to_quest_db_format(Head(messages)))),
                 Tail(messages))

\* write with its flush inside the loop
RECURSIVE write_flush_each(_, _)
write_flush_each(log, messages) ==
    IF messages = <<>> THEN log
    ELSE write_flush_each(
             Append(Append(log, ClientRow(to_quest_db_format(Head(messages)))),
                    ClientFlush),
             Tail(messages))

write_body(log, messages) == Append(RowLoop(log, messages), ClientFlush)
write_iter_body(log, messages) == Append(RowLoop(log, messages), ClientFlush)
buffer_write_body(log, messages) == RowLoop(log, messages)
buffer_write_iter_body(log, messages) == RowLoop(log, messages)

MessageLists == UNION {[1 .. n -> Messages] : n \in 0 .. MaxMessages}

Called(op, messages) ==
    calls' = Append(calls, [op |-> op, messages |-> messages,
                            from |-> Len(clientLog), to |-> Len(clientLog')])

write ==
    /\ Len(calls) < MaxCalls
    /\ \E messages \in MessageLists :
          /\ clientLog' = write_body(clientLog, messages)
          /\ Called("write", messages)
    /\ UNCHANGED <<queryVars, lifeVars>>
    /\ UNCHANGED logVars

write_iter ==
    /\ Len(calls) < MaxCalls
    /\ \E messages \in MessageLists :
          /\ clientLog' = write_iter_body(clientLog, messages)
          /\ Called("write_iter", messages)
    /\ UNCHANGED <<queryVars, lifeVars>>
    /\ UNCHANGED logVars

buffer_write ==
    /\ Len(calls) < MaxCalls
    /\ \E messages \in MessageLists :
          /\ clientLog' = buffer_write_body(clientLog, messages)
          /\ Called("buffer_write", messages)
    /\ UNCHANGED <<queryVars, lifeVars>>
    /\ UNCHANGED logVars

buffer_write_iter ==
    /\ Len(calls) < MaxCalls
    /\ \E messages \in MessageLists :
          /\ clientLog' = buffer_write_iter_body(clientLog, messages)
          /\ Called("buffer_write_iter", messages)
    /\ UNCHANGED <<queryVars, lifeVars>>
    /\ UNCHANGED logVars

(***************************************************************************)
(* close, __aenter__, __aexit__ (db.py 239-255).                           *)
(***************************************************************************)
\* close: if self.session: await self.session.close(); self.client.close()
close_body ==
    /\ closeAwaits' = closeAwaits + 1
    /\ sessionLog' = IF session # 0 THEN Append(sessionLog, session) ELSE sessionLog
    /\ clientLog' = Append(clientLog, ClientClose)

close ==
    /\ closeAwaits < MaxCloses + blocks
    /\ close_body
    /\ UNCHANGED <<queryVars, session, sessions, ctx, blocks, lastBlock, calls>>
    /\ UNCHANGED logVars

\* __aenter__ opening a session of its own every time
aenter_session_replace ==
    /\ session' = sessions + 1
    /\ sessions' = sessions + 1

\* self.session = aiohttp.ClientSession() if not self.session else self.session
aenter_session ==
    /\ session' = IF session = 0 THEN sessions + 1 ELSE session
    /\ sessions' = IF session = 0 THEN sessions + 1 ELSE sessions

aenter ==
    /\ ctx = "out"
    /\ blocks < MaxBlocks
    /\ aenter_session
    /\ ctx' = "in"
    /\ blocks' = blocks + 1
    /\ lastBlock' = [returned |-> "self", exc |-> FALSE]
    /\ UNCHANGED <<queryVars, sessionLog, closeAwaits, clientLog, calls>>
    /\ UNCHANGED logVars

\* __aexit__: if self.session: await self.close()
aexit_body ==
    IF session # 0 THEN close_body
    ELSE UNCHANGED <<closeAwaits, sessionLog, clientLog>>

\* the block ends normally (exc = FALSE) or by an exception, which __aexit__
\* lets through: it returns None
aexit ==
    /\ ctx = "in"
    /\ \E exc \in BOOLEAN : lastBlock' = [lastBlock EXCEPT !.exc = exc]
    /\ aexit_body
    /\ ctx' = "out"
    /\ UNCHANGED <<queryVars, session, sessions, blocks, calls>>
    /\ UNCHANGED logVars

\* await self._query(...): the session is created by the first fetch
fetch ==
    /\ EnsureSession
    /\ UNCHANGED <<queryVars, sessionLog, closeAwaits, ctx, blocks, lastBlock,
                   clientLog, calls>>
    /\ UNCHANGED logVars

InitClient ==
    /\ response = Garbage
    /\ into_type = "None"
    /\ InitOutputs
    /\ InitLife
    /\ InitWrite
    /\ InitHandler("_logs")

NextWrite ==
    \/ write
    \/ write_iter
    \/ buffer_write
    \/ buffer_write_iter

SpecWrite == InitClient /\ [][NextWrite]_vars

NextLife ==
    \/ fetch
    \/ close
    \/ aenter
    \/ aexit

SpecLife == InitClient /\ [][NextLife]_vars

(***************************************************************************)
(* QuestDBLogHandler.close and __del__ (log_handler.py 34-46).             *)
(***************************************************************************)
\* what an instance of QuestDB has: the attributes __init__ sets and the
\* methods of the class (db.py 18-255)
QuestDBAttrs ==
    {"url", "client", "session",
     "write", "write_iter", "buffer_write", "buffer_write_iter",
     "_query", "_query_sync", "parse_query_response",
     "parse_and_yield_query_response", "query", "query_sync", "query_df",
     "query_df_sync", "close", "__aenter__", "__aexit__"}

\* obj.name: the exception the lookup raises, "" if there is none
GetAttr(attrs, name) == IF name \in attrs THEN "" ELSE "AttributeError"

\* one run of close(): what it did, in the order of the code.  stopRaises
\* is the outcome of QueueListener.stop, which the except clause catches.
\* An exception raised in the finally clause leaves it at once.
handler_close_body(caller, stopRaises) ==
    LET stopCalled == listener
        flushError == GetAttr(QuestDBAttrs, "flush")
    IN  /\ stops' = IF stopCalled THEN stops + 1 ELSE stops
        /\ listener' = IF stopCalled /\ ~stopRaises THEN FALSE ELSE listener
        /\ baseCloses' = IF flushError = "" THEN baseCloses + 1 ELSE baseCloses
        /\ closeLog' = Append(closeLog,
               [caller |-> caller,
                stop |-> stopCalled,
                stop_raised |-> stopCalled /\ stopRaises,
                flush |-> IF flushError = "" THEN "called" ELSE flushError,
                base |-> flushError = "",
                raised |-> flushError])

\* __del__ has run: the handler is gone
Collected ==
    closeLog # <<>> /\ closeLog[Len(closeLog)].caller = "__del__"

ExplicitCloses ==
    Cardinality({j \in 1 .. Len(closeLog) : closeLog[j].caller = "close"})

\* handler.close()
handler_close ==
    /\ ~Collected
    /\ ExplicitCloses < MaxHandlerCloses
    /\ \E stopRaises \in (IF listener THEN BOOLEAN ELSE {FALSE}) :
          handler_close_body("close", stopRaises)
    /\ UNCHANGED <<table_name, emitLog>>
    /\ UNCHANGED <<queryVars, lifeVars, clientLog, calls>>

\* __del__: self.close(), when the handler is collected
handler_del ==
    /\ ~Collected
    /\ \E stopRaises \in (IF listener THEN BOOLEAN ELSE {FALSE}) :
          handler_close_body("__del__", stopRaises)
    /\ UNCHANGED <<table_name, emitLog>>
    /\ UNCHANGED <<queryVars, lifeVars, clientLog, calls>>

(***************************************************************************)
(* InnerQuestDBLogHandler.emit and format_record (log_handler.py 55-87).   *)
(***************************************************************************)
TableNames == {"_logs", "app_logs"}

\* log records: msg, the number of % placeholders in it and of args given
LogRecord(msg, placeholders, nargs, lineno) ==
    [name |-> "test_logger", levelname |-> "INFO", msg |-> msg,
     placeholders |-> placeholders, nargs |-> nargs, lineno |-> lineno]

LogRecords ==
    {LogRecord("Test message", 0, 0, 42),
     LogRecord("worker %s", 1, 1, 23),
     LogRecord("worker %s", 1, 0, 23),
     LogRecord("Test message", 0, 1, 42)}

\* record.getMessage(): msg % args if there are args, msg as it is if not;
\* a number of args other than the placeholders' is a TypeError
getMessage(record) ==
    IF record.nargs = 0 THEN PyStr(record.msg)
    ELSE IF record.nargs = record.placeholders THEN PyStr(record.msg \o " % args")
    ELSE Raise("TypeError")

NoLogFields ==
    [table_name |-> "", symbols |-> [level |-> "", logger |-> ""],
     columns |-> [message |-> "", lineno |-> 0]]

\* format_record: the keyword arguments of the row call
format_record(table, record) ==
    LET message == getMessage(record) IN
    IF IsError(message) THEN [err |-> message.s, fields |-> NoLogFields]
    ELSE [err |-> "",
          fields |-> [table_name |-> table,
                      symbols |-> [level |-> record.levelname,
                                   logger |-> record.name],
                      columns |-> [message |-> message.s,
                                   lineno |-> record.lineno]]]

\* emit with no try around its body
emit_unguarded(table, record, rowRaises) ==
    LET log_message == format_record(table, record) IN
    IF log_message.err # ""
    THEN [rows |-> <<>>, failed |-> "format_record", raised |-> log_message.err]
    ELSE [rows |-> <<ClientRow(log_message.fields)>>,
          failed |-> IF rowRaises THEN "row" ELSE "",
          raised |-> IF rowRaises THEN "IngressError" ELSE ""]

\* emit: the row calls it makes, the statement that raised, and what the
\* caller sees raised.  rowRaises is the outcome of Sender.row.
emit_body(table, record, rowRaises) ==
    LET log_message == format_record(table, record) IN
    IF log_message.err # ""
    THEN [rows |-> <<>>, failed |-> "format_record", raised |-> ""]
    ELSE [rows |-> <<ClientRow(log_message.fields)>>,
          failed |-> IF rowRaises THEN "row" ELSE "",
          raised |-> ""]

emit ==
    /\ Len(emitLog) < MaxRecords
    /\ \E record \in LogRecords, rowRaises \in BOOLEAN :
          LET done == emit_body(table_name, record, rowRaises) IN
          /\ clientLog' = clientLog \o done.rows
          /\ emitLog' = Append(emitLog,
                 [record |-> record,
                  from |-> Len(clientLog), to |-> Len(clientLog'),
                  failed |-> done.failed, raised |-> done.raised])
    /\ UNCHANGED <<listener, table_name, stops, baseCloses, closeLog>>
    /\ UNCHANGED <<queryVars, lifeVars, calls>>

InitLogging ==
    /\ response = Garbage
    /\ into_type = "None"
    /\ InitOutputs
    /\ InitLife
    /\ InitWrite
    /\ \E table \in TableNames : InitHandler(table)

NextLog ==
    \/ handler_close
    \/ handler_del
    \/ emit

SpecLog == InitLogging /\ [][NextLog]_vars

(***************************************************************************)
(* The claims.                                                             *)
(***************************************************************************)
RowOutputs == {out \in {q_out, qs_gen} : out.state = "done"}
FrameOutputs == {out.frame : out \in {o \in {df_out, dfs_out} : o.state = "done"}}
Decoded == parse_query_response(response)
HasRows(out) == out.rows # <<>>

\* C1: given the same bytes and the same into_type, query and query_sync
\* yield the same sequence of records (and end the same way), and query_df
\* and query_df_sync return the same table: same index, same columns, same
\* row order.
C1_SyncAsyncEquivalence ==
    /\ (q_out.state = "done" /\ qs_gen.state = "done")
          => (q_out.rows = qs_gen.rows /\ q_out.err = qs_gen.err)
    /\ (df_out.state = "done" /\ dfs_out.state = "done")
          => df_out.frame = dfs_out.frame

\* both pairs have run on a payload that gives records and a table whose
\* index had to be sorted
C1_Witness ==
    /\ q_out.state = "done" /\ qs_gen.state = "done"
    /\ Len(q_out.rows) >= 2
    /\ df_out.state = "done" /\ dfs_out.state = "done"
    /\ df_out.frame.index.set
    /\ indexer.set

IsRectangular(bytes) ==
    \A i \in 1 .. Len(bytes.dataset) : Len(bytes.dataset[i]) = Len(bytes.columns)

\* the payload with its columns and the cells of every row permuted by p
Permuted(bytes, p) ==
    [bytes EXCEPT !.columns = Take(bytes.columns, p),
                  !.dataset = [i \in 1 .. Len(bytes.dataset) |->
                                   Take(bytes.dataset[i], p)]]

Items(record) == {record.items[j] : j \in 1 .. Len(record.items)}
ItemSets(rows) == [k \in 1 .. Len(rows) |-> Items(rows[k])]

\* C2: every record has, for every column position i, a field named
\* columns[i].name whose value is coerce(columns[i].type, row[i]); and
\* permuting the columns and every row's cells alike changes no value bound
\* to a field name.
C2_PositionalIntegrity ==
    /\ \A out \in RowOutputs : into_type = "None" =>
          \A k \in 1 .. Len(out.rows) : \A i \in 1 .. Len(Decoded.columns) :
              /\ i <= Len(Decoded.dataset[k])
              /\ <<Decoded.columns[i].name,
                   ConvertCell(Decoded.columns[i].type, Decoded.dataset[k][i])>>
                     \in Items(out.rows[k])
    /\ \A out \in RowOutputs : IsRectangular(response) =>
          \A p \in RowOrders(Len(response.columns)) :
              LET other == query_body(Permuted(response, p), into_type)
              IN  /\ other.err = out.err
                  /\ ItemSets(other.rows) = ItemSets(out.rows)

IsRagged(bytes) == bytes.json /\ ~IsRectangular(bytes)

\* C3: a dataset with a row whose cell count differs from the number of
\* columns makes the call fail and gives no QueryResponse, no record and no
\* table; it is never truncated to the shorter length.  (Any exception is
\* counted as the failure here, not only the decoder's.)
C3_RaggedRejected ==
    IsRagged(response) =>
        /\ \A out \in RowOutputs : out.err # "" /\ out.rows = <<>>
        /\ \A frame \in FrameOutputs : frame.err # ""

HasTimestamp(columns) ==
    \E i \in 1 .. Len(columns) : columns[i].type = "TIMESTAMP"

\* the frame of query_df before any index is set
Converted(bytes) ==
    convert_types(DataFrame(bytes.dataset, ColumnNamesOf(bytes.columns)), bytes.columns)

\* no row of the index is greater than a row before it
NonIncreasing(vals) ==
    \A i, j \in 1 .. Len(vals) :
        (i < j /\ vals[i].k # "null" /\ vals[j].k # "null") => vals[i].n >= vals[j].n

\* the descending argsort that keeps rows with equal keys in their order
StableArgsort(vals) ==
    CHOOSE p \in Argsorts(vals) :
        \A i, j \in 1 .. Len(vals) :
            (i < j /\ vals[p[i]] = vals[p[j]]) => p[i] < p[j]

StablySorted(df) ==
    LET p == StableArgsort(df.index.vals) IN
    [df EXCEPT !.index.vals = Take(df.index.vals, p),
               !.cols = [j \in 1 .. Len(df.cols) |->
                            Series(df.cols[j].dtype, Take(df.cols[j].vals, p))]]

\* C4: if and only if a column is declared TIMESTAMP, the table's index is
\* the first such column, removed from the ordinary columns, and the rows are
\* in non-increasing order of it with rows of equal timestamp in their
\* original relative order; otherwise the table has no designated index and
\* its rows are in the order of the dataset.
C4_TimestampIndex ==
    \A frame \in FrameOutputs : frame.err = "" =>
        IF HasTimestamp(response.columns)
        THEN /\ frame.index.set
             /\ frame.index.name = FirstTimestamp(response.columns)
             /\ \A j \in 1 .. Len(frame.names) : frame.names[j] # frame.index.name
             /\ NonIncreasing(frame.index.vals)
             /\ frame = StablySorted(set_index(Converted(response),
                                               FirstTimestamp(response.columns)))
        ELSE /\ ~frame.index.set
             /\ frame = Converted(response)

CellAt(k, i) == Decoded.dataset[k][i]
TypeAt(i) == Decoded.columns[i].type
NameAt(i) == Decoded.columns[i].name
Zipped(k) == 1 .. ZipLen(Decoded.columns, Decoded.dataset[k])

\* C5: a null raw cell yields a null value in the record, whatever the
\* declared type, and no converter is applied to it: an exception that ends
\* the materializer comes from a converter applied to a cell that is not null.
C5_NullPropagation ==
    \A out \in RowOutputs :
        /\ \A k \in 1 .. Len(out.rows) : \A i \in Zipped(k) :
              CellAt(k, i) = Null => <<NameAt(i), Null>> \in Items(out.rows[k])
        /\ (into_type = "None" /\ out.err \in {"TypeError", "ValueError"}) =>
              \E i \in Zipped(Len(out.rows) + 1) :
                  /\ CellAt(Len(out.rows) + 1, i) # Null
                  /\ IsError(TYPE_MAP(TypeAt(i), CellAt(Len(out.rows) + 1, i)))

\* a record was yielded for a row with a null cell in a column whose
\* converter raises on None
C5_Witness ==
    \E out \in RowOutputs :
        /\ out.err = ""
        /\ \E k \in 1 .. Len(out.rows) : \E i \in Zipped(k) :
              CellAt(k, i) = Null /\ TypeAt(i) \in {"LONG", "DOUBLE", "TIMESTAMP"}

HasUnknownType(bytes) ==
    bytes.json /\ \E i \in 1 .. Len(bytes.columns) :
                      bytes.columns[i].type \notin TYPE_MAP_KEYS

\* C6: a declared type without an entry in TYPE_MAP ends the materializer
\* with the lookup error before any record is produced, whatever the rows
\* are: also with no rows and with nothing but null cells.
C6_UnknownTypeFailsFast ==
    HasUnknownType(response) =>
        \A out \in RowOutputs : out.err = "KeyError" /\ out.rows = <<>>

\* both entry points were drained on a payload with an unknown type and no row
C6_Witness ==
    /\ HasUnknownType(response)
    /\ response.dataset = <<>>
    /\ q_out.state = "done" /\ qs_gen.state = "done"

IdentityTypes == {"SYMBOL", "VARCHAR", "BOOLEAN", "LONG", "DOUBLE"}
NativeKind(type) ==
    CASE type \in {"SYMBOL", "VARCHAR"} -> "str"
      [] type = "BOOLEAN" -> "bool"
      [] type = "LONG"    -> "int"
      [] type = "DOUBLE"  -> "float"

\* Python's ==: numbers compare by value across bool, int and float
Halves(v) == IF v.k = "float" THEN v.n ELSE 2 * v.n
PyEquals(a, b) ==
    \/ a = b
    \/ /\ {a.k, b.k} \subseteq {"bool", "int", "float"}
       /\ Halves(a) = Halves(b)

\* C7 as stated: in a SYMBOL, VARCHAR, BOOLEAN, LONG or DOUBLE column every
\* non-null raw cell, boolean, number or string, is in the record unchanged.
C7_IdentityCoercion ==
    \A out \in RowOutputs : \A k \in 1 .. Len(out.rows) : \A i \in Zipped(k) :
        (TypeAt(i) \in IdentityTypes /\ CellAt(k, i) # Null) =>
            \E item \in Items(out.rows[k]) :
                item[1] = NameAt(i) /\ PyEquals(item[2], CellAt(k, i))

\* C7 amended: the value in the record is the result of the constructor
\* TYPE_MAP names (str, bool, int, float): it has that Python type, and it is
\* the raw cell unchanged when the cell already has it.
C7_NativeCellsUnchanged ==
    \A out \in RowOutputs : \A k \in 1 .. Len(out.rows) : \A i \in Zipped(k) :
        (TypeAt(i) \in IdentityTypes /\ CellAt(k, i) # Null) =>
            \E item \in Items(out.rows[k]) :
                /\ item[1] = NameAt(i)
                /\ item[2].k = NativeKind(TypeAt(i))
                /\ CellAt(k, i).k = NativeKind(TypeAt(i)) => item[2] = CellAt(k, i)

\* a record holds a cell of its column's Python type beside one that is not
C7_Witness ==
    \E out \in RowOutputs : \E k \in 1 .. Len(out.rows) : \E i, j \in Zipped(k) :
        /\ TypeAt(i) = "LONG" /\ CellAt(k, i).k = "int"
        /\ TypeAt(j) = "VARCHAR" /\ CellAt(k, j).k = "int"

\* C8: convert_types applied to a table it has produced changes nothing:
\* every column keeps its values and its dtype.
C8_NarrowingIdempotent ==
    \A frame \in FrameOutputs : frame.err = "" =>
        convert_types(Converted(response), response.columns) = Converted(response)

\* a returned table has a column narrowed below 64 bits
C8_Witness ==
    \E frame \in FrameOutputs :
        /\ frame.err = ""
        /\ \E j \in 1 .. Len(frame.cols) : frame.cols[j].dtype \in {"int8", "int16"}
        /\ \E j \in 1 .. Len(frame.cols) : frame.cols[j].dtype = "object"

Segment(c) == SubSeq(clientLog, c.from + 1, c.to)
Flushes(c) == c.op \in {"write", "write_iter"}

\* C9: the Sender receives one row call per message, in the order the
\* messages were passed; a write or write_iter call ends with exactly one
\* flush, after its last row, also when it is given no message; buffer_write
\* and buffer_write_iter issue no flush.
C9_WritePath ==
    /\ \A j \in 1 .. Len(calls) :
          LET c == calls[j]
              n == Len(c.messages)
          IN  /\ c.from = (IF j = 1 THEN 0 ELSE calls[j - 1].to)
              /\ c.to - c.from = (IF Flushes(c) THEN n + 1 ELSE n)
              /\ \A i \in 1 .. n :
                    /\ Segment(c)[i].call = "row"
                    /\ Segment(c)[i].fields.columns = c.messages[i].number
                    /\ Segment(c)[i].fields.table_name = c.messages[i].table
              /\ Flushes(c) => Segment(c)[n + 1].call = "flush"
    /\ Len(clientLog) = (IF calls = <<>> THEN 0 ELSE calls[Len(calls)].to)

\* two different messages were buffered in order, then write_iter was given
\* no message
C9_Witness ==
    /\ Len(calls) = 2
    /\ calls[1].op = "buffer_write" /\ Len(calls[1].messages) = 2
    /\ calls[1].messages[1] # calls[1].messages[2]
    /\ calls[2].op = "write_iter" /\ calls[2].messages = <<>>

\* C10: entering the block returns the instance and leaves it with a
\* session, the one it had if it had one; leaving the block, normally or by
\* an exception, awaits close exactly once; and close closes the session if
\* there is one and always closes the Sender.
C10_ContextManager ==
    [][/\ (ctx = "out" /\ ctx' = "in") =>
              /\ lastBlock'.returned = "self"
              /\ session' # 0
              /\ session # 0 => session' = session
       /\ (ctx = "in" /\ ctx' = "out") => closeAwaits' = closeAwaits + 1
       /\ closeAwaits' # closeAwaits =>
              /\ closeAwaits' = closeAwaits + 1
              /\ clientLog' = Append(clientLog, ClientClose)
              /\ sessionLog' = IF session # 0 THEN Append(sessionLog, session)
                               ELSE sessionLog]_vars

\* a second block, entered with the session of an earlier fetch, was left by
\* an exception
C10_Witness ==
    /\ ctx = "out"
    /\ blocks = 2
    /\ lastBlock.exc
    /\ sessions = 1
    /\ closeAwaits >= 2
    /\ Len(sessionLog) = closeAwaits

StopRaised == \E j \in 1 .. Len(closeLog) : closeLog[j].stop_raised

\* C11: after the first close() the listener reference is None and stop
\* has been called exactly once, however many close() calls follow,
\* explicit or from __del__; and every close() attempts a flush on the
\* QuestDB client and closes the base handler.  (Read for a stop that
\* returns normally.)
C11_HandlerClose ==
    (closeLog # <<>> /\ ~StopRaised) =>
        /\ listener = FALSE
        /\ stops = 1
        /\ \A j \in 1 .. Len(closeLog) : closeLog[j].flush # ""
        /\ baseCloses = Len(closeLog)

\* C12: emit makes exactly one row call on the Sender for each record it
\* is given and can format, for the handler's table, and none for a record
\* whose formatting fails; a failure of the formatting or of the row call
\* is not raised to the caller, and the records after it are handled the
\* same way.
C12_EmitOneRow ==
    /\ \A j \in 1 .. Len(emitLog) :
          LET e == emitLog[j] IN
          /\ e.raised = ""
          /\ e.from = (IF j = 1 THEN 0 ELSE emitLog[j - 1].to)
          /\ e.to - e.from = (IF e.failed = "format_record" THEN 0 ELSE 1)
          /\ e.failed # "format_record" =>
                 /\ clientLog[e.to].call = "row"
                 /\ clientLog[e.to].fields.table_name = table_name
                 /\ clientLog[e.to].fields.columns.lineno = e.record.lineno
          /\ e.failed = "format_record" <=> (e.record.nargs \notin {0, e.record.placeholders})
    /\ Len(clientLog) = (IF emitLog = <<>> THEN 0 ELSE emitLog[Len(emitLog)].to)

\* a record that could not be formatted, then one whose row call raised,
\* then one written, to a table other than the default
C12_Witness ==
    /\ Len(emitLog) = 3
    /\ emitLog[1].failed = "format_record"
    /\ emitLog[2].failed = "row"
    /\ emitLog[3].failed = ""
    /\ emitLog[3].to = 2
    /\ table_name = "app_logs"

====
